---- MODULE Spec2Model ----
(***************************************************************************)
(* HashCalcModule.cpp: a Sleuth Kit framework module with three entry      *)
(* points, initialize(arguments), run(pFile) and finalize().  The module   *)
(* state is the two file-scope flags calculateMD5 / calculateSHA1.  run    *)
(* streams a TskFile through Poco digest streams and posts hex digests     *)
(* with setHash.                                                           *)
(*                                                                         *)
(* TskFile and the Poco digest engines are collaborators outside the       *)
(* source file.  A file object is modelled as a byte sequence with a read   *)
(* offset (read advances it, close resets it); a digest stream as the byte *)
(* sequence written to it; the engines compute the MD5 and SHA1 digests.   *)
(***************************************************************************)
EXTENDS Integers, Sequences, FiniteSets, TLC

\* ------------------------------------------------------------- bounds
\* Longest file content explored.
MaxLen == 3

\* ------------------------------------------------------------- constants
FILE_BUFFER_SIZE == 8192

MD5_NAME == <<"M", "D", "5">>
SHA1_NAME == <<"S", "H", "A", "1">>

OK == "OK"
FAIL == "FAIL"

\* Values that stand for "nothing yet".
NoHash == <<>>
NoStatus == "none"
NoArgs == <<"?">>

Algs == {"MD5", "SHA1"}

\* Byte values file contents are made of.
Bytes == {1, 2}

\* Argument strings passed to initialize, as character sequences:
\* "", "MD5", "SHA1", "SHA1,MD5", "md5", "XYZ".
Args ==
  { <<>>,
    <<"M", "D", "5">>,
    <<"S", "H", "A", "1">>,
    <<"S", "H", "A", "1", ",", "M", "D", "5">>,
    <<"m", "d", "5">>,
    <<"X", "Y", "Z">> }

\* ------------------------------------------------------------- helpers
Min(a, b) == IF a < b THEN a ELSE b

\* All byte sequences of length 0..n.
SeqsUpTo(n) == UNION { {SubSeq(f, 1, k) : f \in [1..k -> Bytes]} : k \in 0..n }

\* std::string::find(pat) != npos : pat occurs as a contiguous substring.
Find(s, pat) ==
  \E i \in 1..(Len(s) - Len(pat) + 1) :
    \A j \in 1..Len(pat) : s[i + j - 1] = pat[j]

\* What initialize's tests at lines 49-61 select for an argument string.
Selected(args) ==
  IF args = <<>> THEN Algs
  ELSE {a \in Algs : Find(args, IF a = "MD5" THEN MD5_NAME ELSE SHA1_NAME)}

\* ------------------------------------------------ Poco digest engines
\* Poco::MD5Engine (RFC 1321) and Poco::SHA1Engine (FIPS 180-1), computed
\* as the engines compute them.  A 32-bit word is a pair <<high, low>> of
\* 16-bit halves, so that all arithmetic stays below 2^31.

\* Bitwise AND of two 16-bit values, one hex digit at a time.
And4 ==
  [a \in 0..15 |-> [b \in 0..15 |->
     ((a % 2) * (b % 2)) + 2 * (((a \div 2) % 2) * ((b \div 2) % 2))
       + 4 * (((a \div 4) % 2) * ((b \div 4) % 2)) + 8 * ((a \div 8) * (b \div 8))]]
And16(a, b) ==
  And4[a % 16][b % 16] + 16 * And4[(a \div 16) % 16][(b \div 16) % 16]
    + 256 * And4[(a \div 256) % 16][(b \div 256) % 16]
    + 4096 * And4[a \div 4096][b \div 4096]

WAnd(x, y) == <<And16(x[1], y[1]), And16(x[2], y[2])>>
WNot(x) == <<65535 - x[1], 65535 - x[2]>>
WOr(x, y) ==
  <<x[1] + y[1] - And16(x[1], y[1]), x[2] + y[2] - And16(x[2], y[2])>>
WXor(x, y) ==
  <<x[1] + y[1] - 2 * And16(x[1], y[1]), x[2] + y[2] - 2 * And16(x[2], y[2])>>
WAdd(x, y) ==
  <<(x[1] + y[1] + ((x[2] + y[2]) \div 65536)) % 65536, (x[2] + y[2]) % 65536>>

Pow2 ==
  <<1, 2, 4, 8, 16, 32, 64, 128, 256, 512, 1024, 2048, 4096, 8192, 16384,
    32768, 65536>>

\* Rotate a word left by s bits: 0 <= r < 16 in Rot16, 0 <= s < 32 in RotL.
Rot16(y, r) ==
  <<((y[1] * Pow2[r + 1]) % 65536) + (y[2] \div Pow2[17 - r]),
    ((y[2] * Pow2[r + 1]) % 65536) + (y[1] \div Pow2[17 - r])>>
RotL(x, s) == IF s >= 16 THEN Rot16(<<x[2], x[1]>>, s - 16) ELSE Rot16(x, s)

\* Message padding: 0x80, zeros up to 56 mod 64, then the bit length in
\* eight bytes (least significant first for MD5, most significant first
\* for SHA1).
PadZeros(n) == (119 - (n % 64)) % 64
LengthBytes(n, bigEndian) ==
  IF bigEndian
  THEN <<0, 0, 0, 0, (n \div 2097152) % 256, (n \div 8192) % 256,
         (n \div 32) % 256, (8 * n) % 256>>
  ELSE <<(8 * n) % 256, (n \div 32) % 256, (n \div 8192) % 256,
         (n \div 2097152) % 256, 0, 0, 0, 0>>
Padded(s, bigEndian) ==
  s \o <<128>> \o [i \in 1..PadZeros(Len(s)) |-> 0] \o LengthBytes(Len(s), bigEndian)

\* The 16 words of 64-byte block b (from 0) of message m.
BlockWords(m, b, bigEndian) ==
  [i \in 1..16 |->
     IF bigEndian
     THEN <<m[64 * b + 4 * i - 3] * 256 + m[64 * b + 4 * i - 2],
            m[64 * b + 4 * i - 1] * 256 + m[64 * b + 4 * i]>>
     ELSE <<m[64 * b + 4 * i] * 256 + m[64 * b + 4 * i - 1],
            m[64 * b + 4 * i - 2] * 256 + m[64 * b + 4 * i - 3]>>]

\* The bytes of a word, least / most significant first.
WordBytesLE(w) == <<w[2] % 256, w[2] \div 256, w[1] % 256, w[1] \div 256>>
WordBytesBE(w) == <<w[1] \div 256, w[1] % 256, w[2] \div 256, w[2] % 256>>

MD5_T ==
  << <<55146, 42104>>, <<59591, 46934>>, <<9248, 28891>>, <<49597, 52974>>,
     <<62844, 4015>>, <<18311, 50730>>, <<43056, 17939>>, <<64838, 38145>>,
     <<27008, 39128>>, <<35652, 63407>>, <<65535, 23473>>, <<35164, 55230>>,
     <<27536, 4386>>, <<64920, 29075>>, <<42617, 17294>>, <<18868, 2081>>,
     <<63006, 9570>>, <<49216, 45888>>, <<9822, 23121>>, <<59830, 51114>>,
     <<54831, 4189>>, <<580, 5203>>, <<55457, 59009>>, <<59347, 64456>>,
     <<8673, 52710>>, <<49975, 2006>>, <<62677, 3463>>, <<17754, 5357>>,
     <<43491, 59653>>, <<64751, 41976>>, <<26479, 729>>, <<36138, 19594>>,
     <<65530, 14658>>, <<34673, 63105>>, <<28061, 24866>>, <<64997, 14348>>,
     <<42174, 59972>>, <<19422, 53161>>, <<63163, 19296>>, <<48831, 48240>>,
     <<10395, 32454>>, <<60065, 10234>>, <<54511, 12421>>, <<1160, 7429>>,
     <<55764, 53305>>, <<59099, 39397>>, <<8098, 31992>>, <<50348, 22117>>,
     <<62505, 8772>>, <<17194, 65431>>, <<43924, 9127>>, <<64659, 41017>>,
     <<25947, 22979>>, <<36620, 52370>>, <<65519, 62589>>, <<34180, 24017>>,
     <<28584, 32335>>, <<65068, 59104>>, <<41729, 17172>>, <<19976, 4513>>,
     <<63315, 32386>>, <<48442, 62005>>, <<10967, 53947>>, <<60294, 54161>> >>

MD5_S ==
  << <<7, 12, 17, 22>>, <<5, 9, 14, 20>>, <<4, 11, 16, 23>>, <<6, 10, 15, 21>> >>

MD5_IV == << <<26437, 8961>>, <<61389, 43913>>, <<39098, 56574>>, <<4146, 21622>> >>

\* The auxiliary function of round r (from 0) and the index of the block
\* word that step i (from 0) uses.
MD5F(r, b, c, d) ==
  IF r = 0 THEN WOr(WAnd(b, c), WAnd(WNot(b), d))
  ELSE IF r = 1 THEN WOr(WAnd(b, d), WAnd(c, WNot(d)))
  ELSE IF r = 2 THEN WXor(WXor(b, c), d)
  ELSE WXor(c, WOr(b, WNot(d)))
MD5G(i) ==
  IF i < 16 THEN i
  ELSE IF i < 32 THEN (5 * i + 1) % 16
  ELSE IF i < 48 THEN (3 * i + 5) % 16
  ELSE (7 * i) % 16

\* One of the 64 MD5 steps, i from 0; st = <<a, b, c, d>>, x the block.
\* (The length test makes the evaluation finish st before it goes on.)
MD5Step(i, st, x) ==
  IF Len(st) # 4 THEN st
  ELSE <<st[4],
         WAdd(st[2],
              RotL(WAdd(WAdd(WAdd(st[1], MD5F(i \div 16, st[2], st[3], st[4])),
                             x[MD5G(i) + 1]),
                        MD5_T[i + 1]),
                   MD5_S[(i \div 16) + 1][(i % 4) + 1])),
         st[2], st[3]>>

\* Round r (from 0): its 16 steps applied to h.
MD5Round(r, h, x) ==
  LET st[i \in 0..16] == IF i = 0 THEN h ELSE MD5Step(16 * r + i - 1, st[i - 1], x)
  IN  IF Len(h) # 4 THEN h ELSE st[16]

MD5Sum(h, z) ==
  <<WAdd(h[1], z[1]), WAdd(h[2], z[2]), WAdd(h[3], z[3]), WAdd(h[4], z[4])>>

\* The chaining value after block x: the four rounds, then the addition.
MD5Transform(h, x) ==
  LET rd[r \in 0..4] == IF r = 0 THEN h ELSE MD5Round(r - 1, rd[r - 1], x)
  IN  IF Len(h) # 4 THEN h ELSE MD5Sum(h, rd[4])

\* The chaining value after all blocks of the padded message m.
MD5Blocks(m) ==
  LET h[b \in 0..(Len(m) \div 64)] ==
        IF b = 0 THEN MD5_IV ELSE MD5Transform(h[b - 1], BlockWords(m, b - 1, FALSE))
  IN  h[Len(m) \div 64]

MD5Bytes(h) ==
  WordBytesLE(h[1]) \o WordBytesLE(h[2]) \o WordBytesLE(h[3]) \o WordBytesLE(h[4])

\* MD5Engine: the 16 digest bytes of the bytes fed.
MD5Engine(s) == MD5Bytes(MD5Blocks(Padded(s, FALSE)))

SHA1_K == << <<23170, 31129>>, <<28377, 60321>>, <<36635, 48348>>, <<51810, 49622>> >>

SHA1_IV ==
  << <<26437, 8961>>, <<61389, 43913>>, <<39098, 56574>>, <<4146, 21622>>,
     <<50130, 57840>> >>

\* The 80-word message schedule of a block: the 16 block words, then 64
\* derived words, 16 at a time.
SHA1NextWord(w) ==
  Append(w, RotL(WXor(WXor(w[Len(w) - 2], w[Len(w) - 7]),
                      WXor(w[Len(w) - 13], w[Len(w) - 15])), 1))
SHA1Extend(w16) ==
  LET w[t \in 0..16] == IF t = 0 THEN w16 ELSE SHA1NextWord(w[t - 1])
  IN  IF Len(w16) = 0 THEN w16 ELSE w[16]
SHA1Schedule(x) ==
  LET w[k \in 0..4] == IF k = 0 THEN [t \in 1..16 |-> x[t]] ELSE SHA1Extend(w[k - 1])
  IN  w[4]

\* The logical function of round r (from 0).
SHA1F(r, b, c, d) ==
  IF r = 0 THEN WOr(WAnd(b, c), WAnd(WNot(b), d))
  ELSE IF r = 2 THEN WOr(WOr(WAnd(b, c), WAnd(b, d)), WAnd(c, d))
  ELSE WXor(WXor(b, c), d)

\* One of the 80 SHA1 steps, t from 0; st = <<a, b, c, d, e>>, w the schedule.
SHA1Step(t, st, w) ==
  IF Len(st) # 5 THEN st
  ELSE <<WAdd(WAdd(WAdd(WAdd(RotL(st[1], 5), SHA1F(t \div 20, st[2], st[3], st[4])),
                        st[5]),
                   w[t + 1]),
              SHA1_K[(t \div 20) + 1]),
         st[1], RotL(st[2], 30), st[3], st[4]>>

\* Round r (from 0): its 20 steps applied to h.
SHA1Round(r, h, w) ==
  LET st[i \in 0..20] == IF i = 0 THEN h ELSE SHA1Step(20 * r + i - 1, st[i - 1], w)
  IN  IF Len(h) # 5 THEN h ELSE st[20]

SHA1Sum(h, z) ==
  <<WAdd(h[1], z[1]), WAdd(h[2], z[2]), WAdd(h[3], z[3]), WAdd(h[4], z[4]),
    WAdd(h[5], z[5])>>

SHA1Rounds(h, w) ==
  LET rd[r \in 0..4] == IF r = 0 THEN h ELSE SHA1Round(r - 1, rd[r - 1], w)
  IN  IF Len(w) # 80 THEN h ELSE rd[4]

\* The chaining value after block x: the four rounds, then the addition.
SHA1Transform(h, x) ==
  IF Len(h) # 5 THEN h ELSE SHA1Sum(h, SHA1Rounds(h, SHA1Schedule(x)))

\* The chaining value after all blocks of the padded message m.
SHA1Blocks(m) ==
  LET h[b \in 0..(Len(m) \div 64)] ==
        IF b = 0 THEN SHA1_IV ELSE SHA1Transform(h[b - 1], BlockWords(m, b - 1, TRUE))
  IN  h[Len(m) \div 64]

SHA1Bytes(h) ==
  WordBytesBE(h[1]) \o WordBytesBE(h[2]) \o WordBytesBE(h[3]) \o WordBytesBE(h[4])
    \o WordBytesBE(h[5])

\* SHA1Engine: the 20 digest bytes of the bytes fed.
SHA1Engine(s) == SHA1Bytes(SHA1Blocks(Padded(s, TRUE)))

\* The digests of the byte sequences explored, computed once.
Digests ==
  [s \in SeqsUpTo(MaxLen) |-> [MD5 |-> MD5Engine(s), SHA1 |-> SHA1Engine(s)]]

\* DigestEngine::digest(): the digest bytes of the bytes the engine was fed.
Digest(alg, s) ==
  IF s \in DOMAIN Digests THEN Digests[s][alg]
  ELSE IF alg = "MD5" THEN MD5Engine(s)
  ELSE SHA1Engine(s)

HexDigits ==
  <<"0", "1", "2", "3", "4", "5", "6", "7", "8", "9", "a", "b", "c", "d", "e", "f">>

\* DigestEngine::digestToHex: two lowercase hex digits per digest byte.
digestToHex(d) ==
  [i \in 1..(2 * Len(d)) |->
     LET b == d[(i + 1) \div 2]
     IN  IF i % 2 = 1 THEN HexDigits[(b \div 16) + 1] ELSE HexDigits[(b % 16) + 1]]

HashStr(alg, s) == digestToHex(Digest(alg, s))

\* ------------------------------------------------------------- state
VARIABLES
  concurrent,     \* TRUE when a second host thread calls the module while run executes
  calculateMD5,   \* file-scope flag, line 31
  calculateSHA1,  \* file-scope flag, line 32
  lastCall,       \* the latest initialize / finalize / run(NULL) call and its status
  file,           \* the TskFile object passed to run
  run             \* the locals and the call record of run(pFile)

vars == <<concurrent, calculateMD5, calculateSHA1, lastCall, file, run>>

NoHashes == [a \in Algs |-> NoHash]
NoPrev == <<>>

\* A TskFile object: whether the file exists, its bytes, and how many of
\* them pFile->read has consumed.
NewFile(e, c) == [exists |-> e, content |-> c, offset |-> 0]

FileObjects ==
  { NewFile(e, c) : e \in BOOLEAN, c \in SeqsUpTo(MaxLen) } \
    { NewFile(FALSE, c) : c \in SeqsUpTo(MaxLen) \ {<<>>} }

\* The record of a run invocation that has not started.
NoRun ==
  [ pc        |-> "idle",
    buffer    |-> <<>>,     \* char buffer[]: the bytes the latest read stored
    bytesRead |-> 0,        \* int bytesRead = 0        (line 106)
    read      |-> FALSE,    \* bool read = false        (line 107)
    md5       |-> <<>>,     \* bytes written to md5dos  (lines 99-100)
    sha1      |-> <<>>,     \* bytes written to sha1dos (lines 102-103)
    md5bad    |-> FALSE,    \* md5dos has failed (badbit)
    sha1bad   |-> FALSE,    \* sha1dos has failed (badbit)
    status    |-> NoStatus, \* the value run returned
    \* history of the call
    rets      |-> <<>>,     \* values pFile->read returned
    threw     |-> FALSE,    \* pFile->read threw
    chunks    |-> <<>>,     \* all bytes the reads delivered, in order
    wcalls    |-> <<>>,     \* <<alg, count>> of every write call
    posted    |-> NoHashes, \* the hash strings this call passed to setHash
    closed    |-> FALSE,    \* pFile->close() was called
    sel0      |-> {},       \* the flags when run was entered
    prev      |-> NoPrev ]  \* <<outcome of the run just before, on the same object>>

\* No invocation of run is executing.
Idle == run.pc \in {"idle", "done"}

\* A call of initialize has stored calculateMD5 and has not yet returned.
Pending == lastCall.op = "initialize" /\ lastCall.status = NoStatus

\* initialize, finalize or run(NULL) may be called: from a second host thread
\* at any time while run executes, otherwise only between calls of run; the
\* calls of that thread follow one another.  (Other invocations of run are
\* not part of the state: an invocation shares nothing with another one but
\* the two flags, which run only reads.)
CanCall == ~Pending /\ (concurrent \/ Idle)

\* run may be entered: by its own thread at any time when a second thread
\* makes the other calls, otherwise only between calls.
CanRun == Idle /\ (concurrent \/ ~Pending)

\* The call record after a call of initialize, finalize or run(NULL).  In a
\* single-threaded host it describes the latest call of run only as long as
\* no other module call has followed it.
Forget == IF concurrent THEN run ELSE NoRun

\* The state when the module has been loaded, before any call.
Loaded(c) ==
  /\ concurrent = c
  /\ calculateMD5 = FALSE
  /\ calculateSHA1 = FALSE
  /\ lastCall = [op |-> "none", args |-> NoArgs, status |-> NoStatus]
  /\ file = NewFile(FALSE, <<>>)
  /\ run = NoRun

Init == Loaded(FALSE)

InitConc == Loaded(TRUE)

\* ------------------------------------------------------------- initialize
\* A flag after its store in initialize(arguments), lines 49-51 and 56-61:
\* flags are only ever set, never cleared.
FlagAfter(flag, name, arguments) ==
  IF arguments = <<>> THEN TRUE
  ELSE IF Find(arguments, name) THEN TRUE
  ELSE flag

\* The status initialize returns, lines 52 and 66-73, from the flags as they
\* are after its stores.
InitializeStatus(arguments, md5flag, sha1flag) ==
  IF arguments = <<>> THEN OK
  ELSE IF ~md5flag /\ ~sha1flag THEN FAIL
  ELSE OK

\* initialize is entered and stores calculateMD5: lines 49-50, or 56-57.
\* The two flags are stored one after the other without synchronisation, so
\* a run in another thread can execute between the two stores.
InitializeMD5(arguments) ==
  /\ CanCall
  /\ calculateMD5' = FlagAfter(calculateMD5, MD5_NAME, arguments)
  /\ lastCall' = [op |-> "initialize", args |-> arguments, status |-> NoStatus]
  /\ run' = Forget
  /\ UNCHANGED <<concurrent, calculateSHA1, file>>

\* initialize stores calculateSHA1 and returns: lines 51-52, or 60-73.
InitializeSHA1 ==
  /\ Pending
  /\ calculateSHA1' = FlagAfter(calculateSHA1, SHA1_NAME, lastCall.args)
  /\ lastCall' = [lastCall EXCEPT
                    !.status = InitializeStatus(lastCall.args, calculateMD5, calculateSHA1')]
  /\ UNCHANGED <<concurrent, calculateMD5, file, run>>

\* ------------------------------------------------------------- finalize
\* Lines 171-174.
Finalize ==
  /\ CanCall
  /\ lastCall' = [op |-> "finalize", args |-> NoArgs, status |-> OK]
  /\ run' = Forget
  /\ UNCHANGED <<concurrent, calculateMD5, calculateSHA1, file>>

\* ------------------------------------------------------------- run
Flags == {a \in Algs : IF a = "MD5" THEN calculateMD5 ELSE calculateSHA1}

\* No read of the call reported an error or threw.
Clean(r) == ~r.threw /\ \A i \in 1..Len(r.rets) : r.rets[i] >= 0

\* run(NULL), lines 85-88.
RunNull ==
  /\ CanCall
  /\ lastCall' = [op |-> "run", args |-> NoArgs, status |-> FAIL]
  /\ run' = Forget
  /\ UNCHANGED <<concurrent, calculateMD5, calculateSHA1, file>>

\* The record of a run that has just been entered, lines 84-90.
Entered(r, same) ==
  [NoRun EXCEPT
     !.pc = "exists",
     !.sel0 = Flags,
     !.prev = IF same /\ r.pc = "done" /\ Clean(r)
              THEN <<[status |-> r.status, posted |-> r.posted]>>
              ELSE NoPrev]

\* run is entered with a file object not used before.
RunBegin(f) ==
  /\ CanRun
  /\ file' = f
  /\ run' = Entered(run, FALSE)
  /\ UNCHANGED <<concurrent, calculateMD5, calculateSHA1, lastCall>>

\* run is entered again with the object of the run that has just returned.
RunAgain ==
  /\ CanRun
  /\ run.pc = "done"
  /\ run' = Entered(run, TRUE)
  /\ UNCHANGED <<concurrent, calculateMD5, calculateSHA1, lastCall, file>>

\* A run that does not test pFile->exists().
ExistsCheckSkipped(r, fileExists) ==
  [r EXCEPT !.pc = "read"]

\* Lines 91-103: the existence check, then the engines are constructed.
ExistsCheck(r, fileExists) ==
  IF ~fileExists
  THEN [r EXCEPT !.status = FAIL, !.pc = "done"]
  ELSE [r EXCEPT !.pc = "read"]

RunExists ==
  /\ run.pc = "exists"
  /\ run' = ExistsCheck(run, file.exists)
  /\ UNCHANGED <<concurrent, calculateMD5, calculateSHA1, lastCall, file>>

\* The values pFile->read(buffer, FILE_BUFFER_SIZE) may return: at end of
\* input 0, otherwise any count from 1 to the bytes left (at most the buffer
\* size); -1 when the read reports an error.
ReadResults(f) ==
  LET left == Len(f.content) - f.offset
  IN  (IF left = 0 THEN {0} ELSE 1..Min(FILE_BUFFER_SIZE, left)) \cup {-1}

\* Lines 111-113 for a read that delivered data and returned n.
AfterRead(r, data, n) ==
  [r EXCEPT !.bytesRead = n,
            !.buffer = IF n > 0 THEN data ELSE r.buffer,
            !.read = IF n > 0 THEN TRUE ELSE r.read,
            !.rets = Append(r.rets, n),
            !.chunks = IF n > 0 THEN r.chunks \o data ELSE r.chunks,
            !.pc = "wmd5"]

RunRead ==
  LET f == file IN
  /\ run.pc = "read"
  /\ \E n \in ReadResults(f) :
       /\ run' = AfterRead(run, SubSeq(f.content, f.offset + 1, f.offset + n), n)
       /\ file' = [file EXCEPT !.offset = IF n > 0 THEN f.offset + n ELSE f.offset]
  /\ UNCHANGED <<concurrent, calculateMD5, calculateSHA1, lastCall>>

\* pFile->read throws: the catch blocks at lines 148-161 return FAIL.
RunReadThrows ==
  /\ run.pc = "read"
  /\ run' = [run EXCEPT !.threw = TRUE, !.status = FAIL, !.pc = "done"]
  /\ UNCHANGED <<concurrent, calculateMD5, calculateSHA1, lastCall, file>>

\* A write that puts the new bytes in front of what was written before.
DigestWriteFront(fed, buffer, n) ==
  IF n > 0 THEN SubSeq(buffer, 1, n) \o fed ELSE fed

\* dos.write(buffer, n): the first n bytes of buffer reach the stream; a
\* count that is not positive writes nothing.
DigestWrite(fed, buffer, n) ==
  IF n > 0 THEN fed \o SubSeq(buffer, 1, n) ELSE fed

\* Lines 114-115.
WriteMD5(r, flag) ==
  IF flag
  THEN [r EXCEPT !.md5 = DigestWrite(r.md5, r.buffer, r.bytesRead),
                 !.md5bad = r.md5bad \/ r.bytesRead < 0,
                 !.wcalls = Append(r.wcalls, <<"MD5", r.bytesRead>>),
                 !.pc = "wsha1"]
  ELSE [r EXCEPT !.pc = "wsha1"]

\* Lines 116-118, with the loop test.
WriteSHA1(r, flag) ==
  LET next == IF r.bytesRead > 0 THEN "read" ELSE "check"
  IN  IF flag
      THEN [r EXCEPT !.sha1 = DigestWrite(r.sha1, r.buffer, r.bytesRead),
                     !.sha1bad = r.sha1bad \/ r.bytesRead < 0,
                     !.wcalls = Append(r.wcalls, <<"SHA1", r.bytesRead>>),
                     !.pc = next]
      ELSE [r EXCEPT !.pc = next]

RunWriteMD5 ==
  /\ run.pc = "wmd5"
  /\ run' = WriteMD5(run, calculateMD5)
  /\ UNCHANGED <<concurrent, calculateMD5, calculateSHA1, lastCall, file>>

RunWriteSHA1 ==
  /\ run.pc = "wsha1"
  /\ run' = WriteSHA1(run, calculateSHA1)
  /\ UNCHANGED <<concurrent, calculateMD5, calculateSHA1, lastCall, file>>

\* A run without the test of the read flag.
EmptyCheckSkipped(r) ==
  [r EXCEPT !.pc = "fmd5"]

\* Lines 120-128: when nothing was read the streams and the file are closed
\* and run returns OK; otherwise execution goes on to line 130.
EmptyCheck(r) ==
  IF ~r.read
  THEN [r EXCEPT !.closed = TRUE, !.status = OK, !.pc = "done"]
  ELSE [r EXCEPT !.pc = "fmd5"]

\* pFile->close() rewinds the file.
RunCheck ==
  /\ run.pc = "check"
  /\ run' = EmptyCheck(run)
  /\ file' = IF run'.closed THEN [file EXCEPT !.offset = 0] ELSE file
  /\ UNCHANGED <<concurrent, calculateMD5, calculateSHA1, lastCall>>

\* Poco::DigestOutputStream keeps what is written in a buffer of this many
\* bytes and hands the buffer to the engine when it is full.
StreamBufferSize == 256

\* The bytes the engine may have received when digest() is called after
\* dos.flush().  On a good stream flush hands over what is still in the
\* buffer, so the engine has every byte written.  After write was given a
\* negative count the stream is in a failed state and flush does nothing:
\* the engine has only the full buffers handed over while writing.  How many
\* of the n bytes written those are depends on the Poco release the module
\* is built with: the buffer is handed over as soon as it is full, or only
\* when the next byte arrives.
HandedOver(n) ==
  { StreamBufferSize * (n \div StreamBufferSize),
    IF n = 0 THEN 0 ELSE StreamBufferSize * ((n - 1) \div StreamBufferSize) }

EngineBytes(fed, bad) ==
  IF bad THEN { SubSeq(fed, 1, k) : k \in HandedOver(Len(fed)) } ELSE {fed}

\* Lines 130-135 / 137-142: flush, digest, digestToHex, setHash.
PostHash(alg, flag, fed, bad) ==
  LET pc2 == IF alg = "MD5" THEN "fsha1" ELSE "done"
      st2 == IF alg = "MD5" THEN NoStatus ELSE OK
  IN  IF flag
      THEN \E bytes \in EngineBytes(fed, bad) :
             run' = [run EXCEPT !.posted[alg] = HashStr(alg, bytes),
                                !.pc = pc2, !.status = st2]
      ELSE run' = [run EXCEPT !.pc = pc2, !.status = st2]

RunFinalMD5 ==
  /\ run.pc = "fmd5"
  /\ PostHash("MD5", calculateMD5, run.md5, run.md5bad)
  /\ UNCHANGED <<concurrent, calculateMD5, calculateSHA1, lastCall, file>>

\* Lines 137-146 and 163: after the SHA1 hash the digest streams are closed
\* and run returns OK.
RunFinalSHA1 ==
  /\ run.pc = "fsha1"
  /\ PostHash("SHA1", calculateSHA1, run.sha1, run.sha1bad)
  /\ UNCHANGED <<concurrent, calculateMD5, calculateSHA1, lastCall, file>>

\* ------------------------------------------------------------- specification
Next ==
  \/ \E a \in Args : InitializeMD5(a)
  \/ InitializeSHA1
  \/ Finalize
  \/ RunNull
  \/ \E f \in FileObjects : RunBegin(f)
  \/ RunAgain
  \/ RunExists
  \/ RunRead
  \/ RunReadThrows
  \/ RunWriteMD5
  \/ RunWriteSHA1
  \/ RunCheck
  \/ RunFinalMD5
  \/ RunFinalSHA1

\* The host calls the module from one thread: calls do not overlap.
Spec == Init /\ [][Next]_vars

\* A second host thread calls the module while run executes.
SpecConc == InitConc /\ [][Next]_vars

\* ------------------------------------------------------------- properties
Done == run.pc = "done"

PostedAlgs == {a \in Algs : run.posted[a] # NoHash}

Fed(a) == IF a = "MD5" THEN run.md5 ELSE run.sha1

\* The reads of the call split the whole, non-empty file into chunks and
\* ended with a zero-length read.
FullRead ==
  /\ file.content # <<>>
  /\ Clean(run)
  /\ run.chunks = file.content
  /\ run.rets # <<>>
  /\ run.rets[Len(run.rets)] = 0

\* The argument string names no algorithm: non-empty, with neither token.
NamesNone(args) ==
  args # <<>> /\ ~Find(args, MD5_NAME) /\ ~Find(args, SHA1_NAME)

\* C1: when the reads of a run have split a non-empty file into chunks,
\* whatever their sizes, a selected algorithm's accumulator holds exactly the
\* bytes of the file, in order, when it is finalized, and the hash posted is
\* the hash of the file content.
C1_FedWholeFile ==
  /\ (run.pc = "fmd5" /\ calculateMD5 /\ FullRead) => run.md5 = file.content
  /\ (run.pc = "fsha1" /\ calculateSHA1 /\ FullRead) => run.sha1 = file.content
  /\ \A a \in Algs :
       (FullRead /\ run.posted[a] # NoHash)
         => run.posted[a] = HashStr(a, file.content)

\* A file of two different bytes read one byte at a time has been hashed
\* with both algorithms.
C1_Witness ==
  /\ Done
  /\ FullRead
  /\ run.rets = <<1, 1, 0>>
  /\ file.content = <<1, 2>>
  /\ PostedAlgs = Algs

\* C2: a complete run that follows an initialize(args) that returned OK
\* posts a hash for exactly the algorithms args selects.
C2_PostsExactlySelected ==
  (Done /\ FullRead /\ lastCall.op = "initialize" /\ lastCall.status = OK)
    => PostedAlgs = Selected(lastCall.args)

\* C3: initialize with a non-empty argument that contains neither "MD5" nor
\* "SHA1" returns FAIL.
C3_UnknownArgsFail ==
  (lastCall.op = "initialize" /\ ~Pending /\ NamesNone(lastCall.args))
    => lastCall.status = FAIL

\* C4: a run in which a read reported an error or threw returns FAIL and
\* posts no hash.
C4_ReadErrorFails ==
  (Done /\ ~Clean(run)) => (run.status = FAIL /\ PostedAlgs = {})

\* C5: a run that got past the existence check has closed the file when it
\* returns.
C5_FileClosed ==
  (Done /\ file.exists) => run.closed

\* C6: when the first read returns zero bytes, run returns OK, writes no
\* byte to either accumulator and posts no hash, whatever flags are set.
C6_EmptyPostsNothing ==
  (run.rets # <<>> /\ run.rets[1] = 0)
    => /\ run.pc \in {"wmd5", "wsha1", "check", "done"}
       /\ PostedAlgs = {}
       /\ run.md5 = <<>> /\ run.sha1 = <<>>
       /\ Done => run.status = OK

\* An empty existing file was run with both algorithms selected.
C6_Witness ==
  /\ Done
  /\ run.rets = <<0>>
  /\ file.exists /\ file.content = <<>>
  /\ Flags = Algs
  /\ run.status = OK

\* C7: for a file that does not exist run returns FAIL with no read, no
\* write to an accumulator, no finalization and no hash posted.
C7_MissingFileFails ==
  (~file.exists /\ run.pc \notin {"idle", "exists"})
    => /\ Done
       /\ run.status = FAIL
       /\ run.rets = <<>> /\ ~run.threw
       /\ run.wcalls = <<>>
       /\ run.md5 = <<>> /\ run.sha1 = <<>>
       /\ PostedAlgs = {}

\* run has returned FAIL for a missing file while both algorithms were selected.
C7_Witness ==
  /\ Done
  /\ ~file.exists
  /\ Flags = Algs
  /\ run.status = FAIL

\* C8: a run that directly follows a run on the same file object, with the
\* same selection and no read error in either, returns the same status and
\* posts the same hashes.
C8_Idempotent ==
  (Done /\ run.prev # NoPrev /\ Clean(run))
    => (run.status = run.prev[1].status /\ run.posted = run.prev[1].posted)

\* C9: whatever initialize calls execute while run does, a run entered
\* with some algorithm selected posts hashes for the algorithms selected
\* when it was entered, and each posted hash is the hash of all the bytes
\* the run read.
C9_SelectionFixed ==
  (Done /\ Clean(run) /\ run.status = OK /\ run.sel0 # {})
    => /\ run.read => PostedAlgs = run.sel0
       /\ \A a \in PostedAlgs :
            Fed(a) = run.chunks /\ run.posted[a] = HashStr(a, run.chunks)

\* C10: every write call on a digest stream has a count greater than 0.
C10_NoTerminalWrite ==
  \A i \in 1..Len(run.wcalls) : run.wcalls[i][2] > 0

====
